---- MODULE Spec2Model ----
(***************************************************************************)
(* Sale / inventory reconciliation of profitably: the route handlers of    *)
(* app/api/sales/route.ts (POST = recordSale, PATCH = updateSale,          *)
(* DELETE = deleteSale) over the items and sales tables.                   *)
(*                                                                         *)
(* Money and quantities are integers.  profit_margin is kept as an exact   *)
(* fraction in lowest terms, so "net / (price * qty) * 100" is compared    *)
(* exactly.  A JavaScript request field is a record [t, v]: a number, or   *)
(* undefined, or a non-empty string.                                       *)
(***************************************************************************)
EXTENDS Integers, FiniteSets, Sequences, TLC

VARIABLES items, sales, nextId, origin, resp, procs,
          reviews, replies, wishlists, products, store_settings, calls

\* the tables of the storefront routes and the storefront requests in flight
storefront == <<reviews, replies, wishlists, products, store_settings, calls>>
\* the tables of the sales routes and the sales requests in flight
ledger == <<items, sales, nextId, origin, procs>>

vars == <<items, sales, nextId, origin, resp, procs,
          reviews, replies, wishlists, products, store_settings, calls>>

---------------------------------------------------------------------------
(* Bounds of the model *)

\* units every item starts with (quantity_purchased)
InitStock == 2
\* sale rows that can ever be inserted when requests run one at a time
MaxSales == 1
\* purchase price every item starts with
BaseCost == 10
\* the positive unit sale price requests carry
SalePrice == 25
\* concurrent requests in flight in SpecConc
MaxProcs == 2

---------------------------------------------------------------------------
(* Values *)

Users == {"A", "B"}
Anonymous == "anon"
ItemIds == {1, 2}
SaleIds == 1..MaxSales
Procs == 1..MaxProcs

Num(n) == [t |-> "num", v |-> n]
Undef == [t |-> "undef", v |-> 0]
Str(k) == [t |-> "str", v |-> k]
\* the number n + 1/2, a number that is not an integer
Half(n) == [t |-> "half", v |-> n]

\* a number with an integer value
IsNum(x) == x.t = "num"
IsHalf(x) == x.t = "half"
\* JavaScript truthiness: undefined, 0 and "" are falsy
Falsy(x) == x.t = "undef" \/ (x.t # "half" /\ x.v = 0)
\* x || 0
OrZero(x) == IF Falsy(x) THEN 0 ELSE x.v

Abs(n) == IF n < 0 THEN -n ELSE n

RECURSIVE GCD(_, _)
GCD(a, b) == IF b = 0 THEN a ELSE GCD(b, a % b)

\* the fraction n / d in lowest terms, d # 0
Rat(n, d) ==
  LET g == GCD(Abs(n), Abs(d))
      s == IF d < 0 THEN -1 ELSE 1
  IN [num |-> (s * n) \div g, den |-> Abs(d) \div g]
ZeroRat == [num |-> 0, den |-> 1]
\* NaN and +-Infinity: JSON.stringify sends them as null
NonFinite == [num |-> 0, den |-> 0]

---------------------------------------------------------------------------
(* Rows of the items and sales tables (lib/supabase/client.ts) *)

Item(u, p, n) ==
  [user_id |-> u, purchase_price |-> p, quantity_purchased |-> n,
   quantity_on_hand |-> n, quantity_sold |-> 0]
BlankItem == Item(Anonymous, 0, 0)

BlankSale ==
  [present |-> FALSE, user_id |-> Anonymous, item_id |-> 0, platform |-> 0,
   sale_price |-> 0, sale_date |-> 0, quantity_sold |-> 0,
   platform_fees |-> 0, shipping_cost |-> 0, other_fees |-> 0,
   gross_profit |-> 0, net_profit |-> 0, profit_margin |-> ZeroRat]

\* a request body; id = 0 and item_id = 0 stand for an absent id
Body(id, item, plat, price, date, qty, fees) ==
  [id |-> id, item_id |-> item, platform |-> plat, sale_price |-> price,
   sale_date |-> date, quantity_sold |-> qty, platform_fees |-> fees[1],
   shipping_cost |-> fees[2], other_fees |-> fees[3]]
BlankBody == Body(0, 0, Undef, Undef, Undef, Undef, <<Undef, Undef, Undef>>)

\* history of a sale: the item's counters before it was recorded, whether
\* only this sale has touched the item since, and whether an update has
\* changed its quantity
BlankOrigin == [quantity_on_hand |-> 0, quantity_sold |-> 0, clean |-> FALSE,
                updated |-> FALSE]

BlankResp ==
  [op |-> "none", user |-> Anonymous, status |-> 0, err |-> "none",
   msg |-> "none", available |-> 0, needed |-> 0, body |-> BlankBody,
   old_sale |-> BlankSale, item_id |-> 0, item |-> BlankItem,
   sale_id |-> 0, sale |-> BlankSale, div_by_zero |-> FALSE,
   origin |-> BlankOrigin, failed |-> "none", called |-> FALSE,
   rpc |-> 0, new_item_id |-> 0, row |-> 0, customer |-> "none",
   product |-> 0, rating |-> Undef, updated |-> FALSE]

Reply(op, u, b, status, err, msg) ==
  [BlankResp EXCEPT !.op = op, !.user = u, !.body = b, !.status = status,
                    !.err = err, !.msg = msg]


\* the other sales of item i lose their undisturbed history when the
\* counters of i are written on behalf of sale s
Disturb(o, i, s) ==
  [x \in DOMAIN o |->
     IF x # s /\ sales[x].present /\ sales[x].item_id = i
     THEN [o[x] EXCEPT !.clean = FALSE] ELSE o[x]]

---------------------------------------------------------------------------
(* Request inputs *)

NoFees == <<Undef, Undef, Undef>>
SomeFees == <<Num(3), Num(2), Num(0)>>
Callers == Users \cup {Anonymous}

\* a well-formed body of either route
Plain(id, item, price, qty, fees) ==
  Body(id, item, Str(1), Num(price), Str(1), Num(qty), fees)

\* what the owner of item 1 posts: every quantity up to one more than the
\* stock, priced at SalePrice with and without fees or at 0, and a few
\* malformed bodies
PostBodies ==
  { Plain(0, 1, SalePrice, q, f) : q \in 1..(InitStock + 1), f \in {NoFees, SomeFees} }
  \cup { Plain(0, 1, 0, q, NoFees) : q \in {1, InitStock + 1} }
  \cup { Plain(0, 1, SalePrice, 0, NoFees),
         Plain(0, 2, SalePrice, 1, NoFees),
         Body(0, 1, Str(1), Undef, Str(1), Num(1), NoFees),
         Body(0, 1, Str(1), Str(1), Str(1), Num(1), NoFees),
         Plain(0, 1, -SalePrice, 1, NoFees),
         Plain(0, 1, SalePrice, -1, NoFees),
         Body(0, 1, Str(1), Num(SalePrice), Str(1), Str(1), NoFees),
         Body(0, 1, Str(1), Num(SalePrice), Str(1), Undef, NoFees),
         Body(0, 1, Str(1), Num(SalePrice), Str(1), Half(1), NoFees),
         Plain(0, 3, SalePrice, 1, NoFees),
         Plain(0, 2, 0, 1, NoFees) }

PatchBodies ==
  { Plain(id, 0, SalePrice, q, f) :
      id \in SaleIds, q \in 0..(InitStock + 1), f \in {NoFees, SomeFees} }
  \cup { Plain(id, 0, 0, q, NoFees) : id \in SaleIds, q \in 0..1 }
  \cup { Plain(id, 0, -SalePrice, 1, NoFees) : id \in SaleIds }
  \cup { Plain(id, 0, SalePrice, -1, NoFees) : id \in SaleIds }
  \cup { Body(id, 0, Str(1), Num(SalePrice), Str(1), q, NoFees) :
           id \in SaleIds, q \in {Undef, Half(1)} }
  \cup { Plain(0, 0, SalePrice, 1, NoFees) }

\* the one request of each kind the other callers make
OneBody == Plain(1, 1, SalePrice, 1, NoFees)

---------------------------------------------------------------------------
(* The database *)

\* the same lookup without .eq('user_id', u)
OwnedItemAnyUser(id, u) == id \in ItemIds
\* .from('items').select().eq('id', id).eq('user_id', u).single()
OwnedItem(id, u) == id \in ItemIds /\ items[id].user_id = u
\* the lookup with .neq('user_id', u) in place of .eq
OwnedSaleOfOthers(id, u) ==
  id \in DOMAIN sales /\ sales[id].present /\ sales[id].user_id # u
\* the same lookup without .eq('user_id', u)
OwnedSaleAnyUser(id, u) == id \in DOMAIN sales /\ sales[id].present
\* .from('sales').select().eq('id', id).eq('user_id', u).single()
OwnedSale(id, u) ==
  id \in DOMAIN sales /\ sales[id].present /\ sales[id].user_id = u

\* profit_margin as the insert trigger derives it
TriggerMargin(net, price, qty) ==
  IF price * qty > 0 THEN Rat(net * 100, price * qty) ELSE ZeroRat

\* BEFORE INSERT part of the sales trigger: the derived profit fields
TriggerProfit(row, cost) ==
  LET gross == (row.sale_price - cost) * row.quantity_sold
      net == gross - row.platform_fees - row.shipping_cost - row.other_fees
  IN [row EXCEPT !.gross_profit = gross, !.net_profit = net,
                 !.profit_margin = TriggerMargin(net, row.sale_price, row.quantity_sold)]

\* AFTER INSERT part of the sales trigger: the item's counters
TriggerCounters(item, qty) ==
  [item EXCEPT !.quantity_on_hand = @ - qty, !.quantity_sold = @ + qty]

\* a row that drops the fees of the request
InsertRowFeesDefaulted(u, b) ==
  [BlankSale EXCEPT !.present = TRUE, !.user_id = u, !.item_id = b.item_id,
     !.platform = b.platform.v, !.sale_price = b.sale_price.v,
     !.sale_date = b.sale_date.v, !.quantity_sold = b.quantity_sold.v]
\* a row that records one unit whatever the request says
InsertRowUnitQty(u, b) ==
  [BlankSale EXCEPT !.present = TRUE, !.user_id = u, !.item_id = b.item_id,
     !.platform = b.platform.v, !.sale_price = b.sale_price.v,
     !.sale_date = b.sale_date.v, !.quantity_sold = 1,
     !.platform_fees = OrZero(b.platform_fees),
     !.shipping_cost = OrZero(b.shipping_cost),
     !.other_fees = OrZero(b.other_fees)]
\* sales.quantity_sold is an integer column: a row with a fractional
\* quantity is refused by the database
InsertRefused(b) == IsHalf(b.quantity_sold)

\* the row POST hands to .insert()
InsertRow(u, b) ==
  [BlankSale EXCEPT !.present = TRUE, !.user_id = u, !.item_id = b.item_id,
     !.platform = b.platform.v, !.sale_price = b.sale_price.v,
     !.sale_date = b.sale_date.v, !.quantity_sold = b.quantity_sold.v,
     !.platform_fees = OrZero(b.platform_fees),
     !.shipping_cost = OrZero(b.shipping_cost),
     !.other_fees = OrZero(b.other_fees)]

---------------------------------------------------------------------------
(* POST /api/sales *)

PostMissing(b) ==
  \/ b.item_id = 0
  \/ Falsy(b.platform)
  \/ Falsy(b.sale_price)
  \/ Falsy(b.sale_date)
  \/ Falsy(b.quantity_sold)
PostBadPrice(b) == ~IsNum(b.sale_price) \/ b.sale_price.v < 0
\* typeof quantity_sold !== 'number' || quantity_sold <= 0
PostBadQuantity(b) ==
  IF IsHalf(b.quantity_sold) THEN b.quantity_sold.v < 0
  ELSE ~IsNum(b.quantity_sold) \/ b.quantity_sold.v <= 0
\* item.quantity_on_hand < quantity_sold
PostShortStock(item, b) ==
  IF IsHalf(b.quantity_sold) THEN item.quantity_on_hand <= b.quantity_sold.v
  ELSE item.quantity_on_hand < b.quantity_sold.v

\* the response of a POST that ends before the insert, or "none"
PostReject(u, b) ==
  IF u = Anonymous THEN Reply("recordSale", u, b, 401, "Unauthorized", "none")
  ELSE IF PostMissing(b)
    THEN Reply("recordSale", u, b, 400, "InvalidInput", "missing")
  ELSE IF PostBadPrice(b)
    THEN Reply("recordSale", u, b, 400, "InvalidInput", "price")
  ELSE IF PostBadQuantity(b)
    THEN Reply("recordSale", u, b, 400, "InvalidInput", "quantity")
  ELSE IF ~OwnedItem(b.item_id, u)
    THEN Reply("recordSale", u, b, 404, "NotFound", "item")
  ELSE IF PostShortStock(items[b.item_id], b)
    THEN [Reply("recordSale", u, b, 400, "InsufficientStock", "available")
            EXCEPT !.item_id = b.item_id, !.item = items[b.item_id],
                   !.available = items[b.item_id].quantity_on_hand]
  ELSE BlankResp

recordSale(u, b) ==
  LET rej == PostReject(u, b) IN
  IF rej.op # "none"
  THEN /\ resp' = rej
       /\ UNCHANGED <<storefront, items, sales, nextId, origin, procs>>
  ELSE IF InsertRefused(b)
  THEN \* .insert() returns an error: 500 'Failed to create sale'
       /\ resp' = [Reply("recordSale", u, b, 500, "Internal", "insert")
                     EXCEPT !.item_id = b.item_id, !.item = items[b.item_id]]
       /\ UNCHANGED <<storefront, items, sales, nextId, origin, procs>>
  ELSE LET i == b.item_id
           row == TriggerProfit(InsertRow(u, b), items[i].purchase_price)
       IN /\ nextId \in DOMAIN sales
          /\ sales' = [sales EXCEPT ![nextId] = row]
          /\ items' = [items EXCEPT ![i] = TriggerCounters(@, row.quantity_sold)]
          /\ origin' = [Disturb(origin, i, nextId) EXCEPT ![nextId] =
                          [quantity_on_hand |-> items[i].quantity_on_hand,
                           quantity_sold |-> items[i].quantity_sold,
                           clean |-> TRUE, updated |-> FALSE]]
          /\ nextId' = nextId + 1
          /\ resp' = [Reply("recordSale", u, b, 201, "none", "none")
                        EXCEPT !.item_id = i, !.item = items[i],
                               !.sale_id = nextId, !.sale = row]
          /\ UNCHANGED <<storefront, procs>>

---------------------------------------------------------------------------
(* PATCH /api/sales *)

\* const quantityDiff = quantity_sold - oldSale.quantity_sold
QuantityDiff(b, old) == b.quantity_sold.v - old.quantity_sold

PatchShortStockOffByOne(item, diff) == diff > 0 /\ item.quantity_on_hand <= diff
PatchShortStockVsSold(item, diff) == diff > 0 /\ item.quantity_sold < diff
PatchShortStock(item, diff) == diff > 0 /\ item.quantity_on_hand < diff

PatchGross(b, cost) ==
  (b.sale_price.v * b.quantity_sold.v) - (cost * b.quantity_sold.v)
PatchNet(b, cost) ==
  PatchGross(b, cost) - OrZero(b.platform_fees) - OrZero(b.shipping_cost)
    - OrZero(b.other_fees)
\* sale_price > 0 ? (net / (sale_price * quantity_sold)) * 100 : 0
PatchDividesByZero(b) ==
  b.sale_price.v > 0 /\ b.sale_price.v * b.quantity_sold.v = 0
PatchMargin(b, cost) ==
  IF b.sale_price.v > 0
  THEN IF b.sale_price.v * b.quantity_sold.v = 0
       THEN NonFinite
       ELSE Rat(PatchNet(b, cost) * 100, b.sale_price.v * b.quantity_sold.v)
  ELSE ZeroRat

\* a key whose value is undefined is left out of the JSON sent to .update(),
\* so the column keeps its value
Sent(x, kept) == IF x.t = "undef" THEN kept ELSE x.v

PatchRow(old, b, cost) ==
  [old EXCEPT !.platform = Sent(b.platform, @),
              !.sale_price = b.sale_price.v,
              !.sale_date = Sent(b.sale_date, @),
              !.quantity_sold = b.quantity_sold.v,
              !.platform_fees = Sent(b.platform_fees, @),
              !.shipping_cost = Sent(b.shipping_cost, @),
              !.other_fees = Sent(b.other_fees, @),
              !.gross_profit = PatchGross(b, cost),
              !.net_profit = PatchNet(b, cost),
              !.profit_margin = PatchMargin(b, cost)]

\* the item counters PATCH writes when quantityDiff !== 0
PatchCountersOnHandOnly(item, diff) ==
  [item EXCEPT !.quantity_on_hand = item.quantity_on_hand - diff]
PatchCountersSoldOnly(item, diff) ==
  [item EXCEPT !.quantity_sold = item.quantity_sold + diff]
PatchCounters(item, diff) ==
  [item EXCEPT !.quantity_on_hand = item.quantity_on_hand - diff,
               !.quantity_sold = item.quantity_sold + diff]

\* the cost PATCH computes with: item.purchase_price of the row just read
PatchCost(item, old) == item.purchase_price

updateSale(u, b) ==
  IF u = Anonymous
  THEN /\ resp' = Reply("updateSale", u, b, 401, "Unauthorized", "none")
       /\ UNCHANGED <<storefront, items, sales, nextId, origin, procs>>
  ELSE IF b.id = 0
  THEN /\ resp' = Reply("updateSale", u, b, 400, "InvalidInput", "id")
       /\ UNCHANGED <<storefront, items, sales, nextId, origin, procs>>
  ELSE IF ~OwnedSale(b.id, u)
  THEN /\ resp' = Reply("updateSale", u, b, 404, "NotFound", "sale")
       /\ UNCHANGED <<storefront, items, sales, nextId, origin, procs>>
  ELSE
    LET old == sales[b.id]
        i == old.item_id
        item == items[i]
        seen == [Reply("updateSale", u, b, 0, "none", "none")
                   EXCEPT !.sale_id = b.id, !.old_sale = old, !.item_id = i,
                          !.item = item]
    IN
    IF IsHalf(b.quantity_sold)
    THEN \* quantityDiff is v + 1/2 - oldSale.quantity_sold; past the stock
         \* check the update carries a fractional quantity_sold (or a NaN
         \* profit) and the database refuses it
         LET whole == b.quantity_sold.v - old.quantity_sold IN
         /\ resp' = IF whole >= 0 /\ item.quantity_on_hand <= whole
                    THEN [seen EXCEPT !.status = 400,
                                      !.err = "InsufficientStock",
                                      !.msg = "available",
                                      !.available = item.quantity_on_hand]
                    ELSE [seen EXCEPT !.status = 500, !.err = "Internal",
                                      !.msg = "update"]
         /\ UNCHANGED <<storefront, items, sales, nextId, origin, procs>>
    ELSE IF ~IsNum(b.quantity_sold)
    THEN \* quantityDiff is NaN and passes the stock check; gross is NaN,
         \* sent as null; sales.gross_profit is not nullable, the update
         \* fails and updateError is thrown
         /\ resp' = [seen EXCEPT !.status = 500, !.err = "Internal",
                                 !.msg = "nan"]
         /\ UNCHANGED <<storefront, items, sales, nextId, origin, procs>>
    ELSE
    LET diff == QuantityDiff(b, old)
        cost == PatchCost(item, old)
    IN
    IF PatchShortStock(item, diff)
    THEN /\ resp' = [seen EXCEPT !.status = 400, !.err = "InsufficientStock",
                                 !.msg = "available", !.needed = diff,
                                 !.available = item.quantity_on_hand]
         /\ UNCHANGED <<storefront, items, sales, nextId, origin, procs>>
    ELSE IF ~IsNum(b.sale_price)
    THEN /\ resp' = [seen EXCEPT !.status = 500, !.err = "Internal",
                                 !.msg = "nan"]
         /\ UNCHANGED <<storefront, items, sales, nextId, origin, procs>>
    ELSE
    LET row == PatchRow(old, b, cost) IN
    IF row.profit_margin = NonFinite
    THEN \* the margin is NaN or an infinity, sent as null;
         \* sales.profit_margin is not nullable either
         /\ resp' = [seen EXCEPT !.status = 500, !.err = "Internal",
                                 !.msg = "nan",
                                 !.div_by_zero = PatchDividesByZero(b)]
         /\ UNCHANGED <<storefront, items, sales, nextId, origin, procs>>
    ELSE /\ sales' = [sales EXCEPT ![b.id] = row]
         /\ items' = IF diff # 0
                      THEN [items EXCEPT ![i] = PatchCounters(item, diff)]
                      ELSE items
         /\ origin' = IF diff # 0
                       THEN [Disturb(origin, i, b.id)
                               EXCEPT ![b.id].updated = TRUE]
                       ELSE origin
         /\ resp' = [seen EXCEPT !.status = 200, !.sale = row]
         /\ UNCHANGED <<storefront, nextId, procs>>

---------------------------------------------------------------------------
(* DELETE /api/sales?id= *)

DeleteCountersOnHandOnly(item, sale) ==
  [item EXCEPT !.quantity_on_hand = item.quantity_on_hand + sale.quantity_sold]
DeleteCounters(item, sale) ==
  [item EXCEPT !.quantity_on_hand = item.quantity_on_hand + sale.quantity_sold,
               !.quantity_sold = item.quantity_sold - sale.quantity_sold]

deleteSale(u, id) ==
  LET b == [BlankBody EXCEPT !.id = id] IN
  IF u = Anonymous
  THEN /\ resp' = Reply("deleteSale", u, b, 401, "Unauthorized", "none")
       /\ UNCHANGED <<storefront, items, sales, nextId, origin, procs>>
  ELSE IF id = 0
  THEN /\ resp' = Reply("deleteSale", u, b, 400, "InvalidInput", "id")
       /\ UNCHANGED <<storefront, items, sales, nextId, origin, procs>>
  ELSE IF ~OwnedSale(id, u)
  THEN \* no sale read: nothing restored, the delete matches no row
       /\ resp' = Reply("deleteSale", u, b, 200, "none", "none")
       /\ UNCHANGED <<storefront, items, sales, nextId, origin, procs>>
  ELSE
    LET sale == sales[id]
        i == sale.item_id
    IN /\ items' = IF i \in ItemIds
                    THEN [items EXCEPT ![i] = DeleteCounters(items[i], sale)]
                    ELSE items
       /\ sales' = [sales EXCEPT ![id] = BlankSale]
       /\ origin' = [Disturb(origin, i, id) EXCEPT ![id] = BlankOrigin]
       /\ resp' = [Reply("deleteSale", u, b, 200, "none", "none")
                     EXCEPT !.sale_id = id, !.old_sale = sale, !.item_id = i,
                            !.item = items[i], !.origin = origin[id]]
       /\ UNCHANGED <<storefront, nextId, procs>>

---------------------------------------------------------------------------
(* The same routes when a call to the database returns an error.  The
   client does not throw: each call resolves to { data, error } and the
   route sees the error only where it reads that field. *)

\* units over the Sale rows among ids that reference item i
RECURSIVE SoldOn(_, _)
SoldOn(i, ids) ==
  IF ids = {} THEN 0
  ELSE LET s == CHOOSE x \in ids : TRUE
       IN (IF sales[s].present /\ sales[s].item_id = i
           THEN sales[s].quantity_sold ELSE 0)
            + SoldOn(i, ids \ {s})

\* no earlier failure has left the counters of item i apart from its
\* sales; the failures modelled are first failures, which keeps the
\* counters within bounds
Undrifted(i) ==
  /\ items[i].quantity_sold = SoldOn(i, DOMAIN sales)
  /\ items[i].quantity_on_hand + items[i].quantity_sold
       = items[i].quantity_purchased

\* every sale of item i loses its undisturbed history
DisturbAll(o, i) ==
  [x \in DOMAIN o |->
     IF sales[x].present /\ sales[x].item_id = i
     THEN [o[x] EXCEPT !.clean = FALSE] ELSE o[x]]

\* POST: .insert() returns an error; route.ts:144-147 answers 500
recordSaleInsertFails(u, b) ==
  /\ PostReject(u, b).op = "none"
  /\ ~InsertRefused(b)
  /\ resp' = [Reply("recordSale", u, b, 500, "Internal", "insert")
                EXCEPT !.item_id = b.item_id, !.item = items[b.item_id],
                       !.failed = "insert"]
  /\ UNCHANGED <<storefront, items, sales, nextId, origin, procs>>

\* a PATCH that gets as far as its writes
PatchReachesWrites(u, b) ==
  /\ u # Anonymous /\ b.id # 0 /\ OwnedSale(b.id, u)
  /\ IsNum(b.quantity_sold) /\ IsNum(b.sale_price)
  /\ ~PatchShortStock(items[sales[b.id].item_id], QuantityDiff(b, sales[b.id]))
  /\ PatchMargin(b, items[sales[b.id].item_id].purchase_price) # NonFinite

PatchSeen(u, b) ==
  [Reply("updateSale", u, b, 0, "none", "none")
     EXCEPT !.sale_id = b.id, !.old_sale = sales[b.id],
            !.item_id = sales[b.id].item_id,
            !.item = items[sales[b.id].item_id]]

\* PATCH: the update of the sale returns an error; route.ts:235 throws it
\* and the catch answers 500
updateSaleSaleWriteFails(u, b) ==
  /\ PatchReachesWrites(u, b)
  /\ resp' = [PatchSeen(u, b) EXCEPT !.status = 500, !.err = "Internal",
                                     !.msg = "update",
                                     !.failed = "sale_update"]
  /\ UNCHANGED <<storefront, items, sales, nextId, origin, procs>>

\* PATCH: the update of the item returns an error; route.ts:238-246 awaits
\* the call and does not look at what it resolves to
updateSaleItemWriteFails(u, b) ==
  /\ PatchReachesWrites(u, b)
  /\ QuantityDiff(b, sales[b.id]) # 0
  /\ Undrifted(sales[b.id].item_id)
  /\ LET old == sales[b.id]
         i == old.item_id
         row == PatchRow(old, b, PatchCost(items[i], old))
     IN /\ sales' = [sales EXCEPT ![b.id] = row]
        /\ origin' = DisturbAll(origin, i)
        /\ resp' = [PatchSeen(u, b) EXCEPT !.status = 200, !.sale = row,
                                           !.failed = "item_update"]
  /\ UNCHANGED <<storefront, items, nextId, procs>>

\* DELETE: the update of the item returns an error; route.ts:292-298
\* awaits the call and does not look at what it resolves to
deleteSaleItemWriteFails(u, id) ==
  /\ u # Anonymous /\ id # 0 /\ OwnedSale(id, u)
  /\ Undrifted(sales[id].item_id)
  /\ LET sale == sales[id]
         i == sale.item_id
     IN /\ sales' = [sales EXCEPT ![id] = BlankSale]
        /\ origin' = [DisturbAll(origin, i) EXCEPT ![id] = BlankOrigin]
        /\ resp' = [Reply("deleteSale", u, [BlankBody EXCEPT !.id = id],
                          200, "none", "none")
                      EXCEPT !.sale_id = id, !.old_sale = sale,
                             !.item_id = i, !.item = items[i],
                             !.origin = origin[id],
                             !.failed = "item_update"]
  /\ UNCHANGED <<storefront, items, nextId, procs>>

\* DELETE: the counters are given back and then .delete() returns an
\* error; route.ts:308-311 answers 500
deleteSaleDeleteFails(u, id) ==
  /\ u # Anonymous /\ id # 0 /\ OwnedSale(id, u)
  /\ LET sale == sales[id]
         i == sale.item_id
     IN /\ Undrifted(i)
        /\ items' = [items EXCEPT ![i] = DeleteCounters(items[i], sale)]
        /\ origin' = DisturbAll(origin, i)
        /\ resp' = [Reply("deleteSale", u, [BlankBody EXCEPT !.id = id],
                          500, "Internal", "delete")
                      EXCEPT !.sale_id = id, !.old_sale = sale,
                             !.item_id = i, !.item = items[i],
                             !.failed = "delete"]
  /\ UNCHANGED <<storefront, sales, nextId, procs>>

---------------------------------------------------------------------------
(* POST /api/shopping-list/purchase *)

PurchaseBody(list, price, location, qty, date) ==
  [shopping_list_id |-> list, actual_price |-> price,
   actual_location |-> location, quantity |-> qty, purchase_date |-> date]

\* x <= 0 for a number x
NotPositive(x) == IF IsHalf(x) THEN x.v < 0 ELSE x.v <= 0

PurchaseMissing(b) ==
  \/ Falsy(b.shopping_list_id)
  \/ Falsy(b.actual_price)
  \/ Falsy(b.actual_location)
  \/ Falsy(b.quantity)
  \/ Falsy(b.purchase_date)
\* typeof actual_price !== 'number' || actual_price <= 0
PurchaseBadPrice(b) ==
  ~(IsNum(b.actual_price) \/ IsHalf(b.actual_price))
    \/ NotPositive(b.actual_price)
\* typeof quantity !== 'number' || quantity <= 0
PurchaseBadQuantity(b) ==
  ~(IsNum(b.quantity) \/ IsHalf(b.quantity)) \/ NotPositive(b.quantity)

\* out is what supabase.rpc('mark_shopping_item_purchased') resolves to:
\* 0 for an error, else the id of the item the procedure made
markShoppingItemPurchased(u, b, out) ==
  /\ resp' =
       LET r == [BlankResp EXCEPT !.op = "markShoppingItemPurchased",
                                  !.user = u, !.body = b]
       IN IF u = Anonymous
          THEN [r EXCEPT !.status = 401, !.err = "Unauthorized"]
          ELSE IF PurchaseMissing(b)
          THEN [r EXCEPT !.status = 400, !.err = "InvalidInput",
                         !.msg = "missing"]
          ELSE IF PurchaseBadPrice(b)
          THEN [r EXCEPT !.status = 400, !.err = "InvalidInput",
                         !.msg = "price"]
          ELSE IF PurchaseBadQuantity(b)
          THEN [r EXCEPT !.status = 400, !.err = "InvalidInput",
                         !.msg = "quantity"]
          ELSE IF out = 0
          THEN [r EXCEPT !.status = 500, !.err = "Internal", !.msg = "rpc",
                         !.called = TRUE]
          ELSE [r EXCEPT !.status = 200, !.called = TRUE, !.rpc = out,
                         !.new_item_id = out]
  /\ UNCHANGED <<storefront, items, sales, nextId, origin, procs>>

---------------------------------------------------------------------------
(* Inventory intake outside the sales routes: an item's cost is edited *)

changePurchasePrice(i) ==
  /\ items[i].purchase_price = BaseCost
  /\ items' = [items EXCEPT ![i].purchase_price = BaseCost + 2]
  /\ UNCHANGED <<storefront, sales, nextId, origin, resp, procs>>

---------------------------------------------------------------------------
(* The storefront tables: reviews, review_replies, wishlists, products and
   store_settings *)

\* rows each storefront table has room for
MaxRows == 2

Customers == {"c1", "c2"}
ProductIds == {1, 2}
RowIds == 1..MaxRows

BlankReview == [present |-> FALSE, customer_id |-> "none", product_id |-> 0,
                rating |-> 0]
BlankReply == [present |-> FALSE, review_id |-> 0, user_id |-> Anonymous,
               content |-> 0]
BlankWish == [present |-> FALSE, customer_id |-> "none", product_id |-> 0]
BlankProduct == [present |-> FALSE, user_id |-> Anonymous,
                 is_published |-> FALSE, order_items |-> 0]
BlankStore == [present |-> FALSE, user_id |-> Anonymous, store_slug |-> <<>>]
IdleCall == [pc |-> "idle", op |-> "none", user |-> Anonymous, arg |-> 0,
             arg2 |-> 0, status |-> 0, found |-> 0, slug |-> <<>>]

\* the lowest row id of table t that is free, 0 when the table is full
FreeRow(t) ==
  IF \E r \in DOMAIN t : ~t[r].present
  THEN CHOOSE r \in DOMAIN t : ~t[r].present /\ \A q \in DOMAIN t : q < r => t[q].present
  ELSE 0

InitStorefront ==
  /\ reviews = [r \in RowIds |-> BlankReview]
  /\ replies = [r \in RowIds |-> BlankReply]
  /\ wishlists = [r \in RowIds |-> BlankWish]
  /\ products = [r \in ProductIds |-> BlankProduct]
  /\ store_settings = [r \in RowIds |-> BlankStore]
  /\ calls = [p \in Procs |-> IdleCall]

\* the reviews POST handler's test of the rating's range
RatingOutOfRange(rating) == rating.v < 1 \/ rating.v > 5

\* the reviews row of customer c for product p, 0 when there is none
ReviewOf(c, p) ==
  IF \E r \in RowIds : reviews[r].present /\ reviews[r].customer_id = c
                        /\ reviews[r].product_id = p
  THEN CHOOSE r \in RowIds : reviews[r].present /\ reviews[r].customer_id = c
                             /\ reviews[r].product_id = p
  ELSE 0

\* the reviews row with id r that belongs to customer c, 0 when there is none
OwnedReview(r, c) ==
  IF r \in RowIds /\ reviews[r].present /\ reviews[r].customer_id = c
  THEN r ELSE 0

StorefrontReply(op, status) == [BlankResp EXCEPT !.op = op, !.status = status]

\* POST /api/reviews
createReview(c, p, rating, content) ==
  LET r == StorefrontReply("createReview", 0)
      q == [r EXCEPT !.customer = c, !.product = p, !.rating = rating]
  IN
  /\ FreeRow(reviews) # 0
  /\ IF p = 0 \/ c = "" \/ Falsy(rating) \/ ~content
     THEN /\ resp' = [q EXCEPT !.status = 400, !.err = "required"]
          /\ UNCHANGED storefront
     ELSE IF RatingOutOfRange(rating)
     THEN /\ resp' = [q EXCEPT !.status = 400, !.err = "range"]
          /\ UNCHANGED storefront
     ELSE IF ReviewOf(c, p) # 0
     THEN /\ resp' = [q EXCEPT !.status = 400, !.err = "reviewed"]
          /\ UNCHANGED storefront
     ELSE /\ reviews' = [reviews EXCEPT ![FreeRow(reviews)] =
                           [present |-> TRUE, customer_id |-> c,
                            product_id |-> p, rating |-> rating.v]]
          /\ resp' = [q EXCEPT !.status = 201, !.row = FreeRow(reviews)]
          /\ UNCHANGED <<replies, wishlists, products, store_settings, calls>>
  /\ UNCHANGED ledger

\* PATCH /api/reviews
updateReview(id, c, rating) ==
  LET r == StorefrontReply("updateReview", 0)
      q == [r EXCEPT !.customer = c, !.row = id, !.rating = rating]
  IN
  /\ IF id = 0 \/ c = ""
     THEN /\ resp' = [q EXCEPT !.status = 400, !.err = "required"]
          /\ UNCHANGED storefront
     ELSE IF OwnedReview(id, c) = 0
     THEN /\ resp' = [q EXCEPT !.status = 404]
          /\ UNCHANGED storefront
     ELSE /\ reviews' = [reviews EXCEPT ![id].rating =
                           IF rating.t = "undef" THEN @ ELSE rating.v]
          /\ resp' = [q EXCEPT !.status = 200]
          /\ UNCHANGED <<replies, wishlists, products, store_settings, calls>>
  /\ UNCHANGED ledger

\* a storefront request of process p that has answered with a status
Answered(p, op, status) ==
  [calls EXCEPT ![p] = [IdleCall EXCEPT !.pc = "done", !.op = op,
                                        !.status = status]]

\* a storefront request that process p begins
Begun(p, op, u, arg, arg2, pc) ==
  [calls EXCEPT ![p] = [IdleCall EXCEPT !.pc = pc, !.op = op, !.user = u,
                                        !.arg = arg, !.arg2 = arg2]]

\* the review_replies row .single() returns for review id: the row when
\* exactly one row matches, 0 otherwise
ReplyOf(id) ==
  LET rows == {r \in RowIds : replies[r].present /\ replies[r].review_id = id}
  IN IF Cardinality(rows) = 1 THEN CHOOSE r \in rows : TRUE ELSE 0

\* whether review id exists and is for a product owned by user u
ReviewOfSeller(id, u) ==
  /\ id \in RowIds
  /\ reviews[id].present
  /\ reviews[id].product_id \in ProductIds
  /\ products[reviews[id].product_id].present
  /\ products[reviews[id].product_id].user_id = u

\* POST /api/reviews/reply up to the lookup of the review
ReplyReadReview(p, u, id, content) ==
  /\ calls[p].pc \in {"idle", "done"}
  /\ calls' =
       IF u = Anonymous THEN Answered(p, "reply", 401)
       ELSE IF id = 0 \/ content = 0 THEN Answered(p, "reply", 400)
       ELSE IF ~ReviewOfSeller(id, u) THEN Answered(p, "reply", 404)
       ELSE Begun(p, "reply", u, id, content, "existing")
  /\ UNCHANGED <<reviews, replies, wishlists, products, store_settings>>
  /\ UNCHANGED resp
  /\ UNCHANGED ledger

\* POST /api/reviews/reply: the lookup of an existing reply
ReplyReadExisting(p) ==
  /\ calls[p].pc = "existing"
  /\ calls[p].op = "reply"
  /\ calls' = [calls EXCEPT ![p].pc = "write", ![p].found = ReplyOf(calls[p].arg)]
  /\ UNCHANGED <<reviews, replies, wishlists, products, store_settings>>
  /\ UNCHANGED resp
  /\ UNCHANGED ledger

\* POST /api/reviews/reply: the update of the reply found or the insert of
\* a new one
ReplyWrite(p) ==
  /\ calls[p].pc = "write"
  /\ calls[p].op = "reply"
  /\ IF calls[p].found # 0
     THEN /\ replies' = [replies EXCEPT ![calls[p].found].content = calls[p].arg2]
          /\ calls' = Answered(p, "reply", 200)
     ELSE /\ FreeRow(replies) # 0
          /\ replies' = [replies EXCEPT ![FreeRow(replies)] =
                           [present |-> TRUE, review_id |-> calls[p].arg,
                            user_id |-> calls[p].user, content |-> calls[p].arg2]]
          /\ calls' = Answered(p, "reply", 201)
  /\ UNCHANGED <<reviews, wishlists, products, store_settings>>
  /\ UNCHANGED resp
  /\ UNCHANGED ledger

\* the wishlists rows of customer c for product p
WishRows(c, p) ==
  {r \in RowIds : wishlists[r].present /\ wishlists[r].customer_id = c
                  /\ wishlists[r].product_id = p}

\* the wishlists row .single() returns for the pair: the row when exactly
\* one row matches, 0 otherwise
WishOf(c, p) ==
  IF Cardinality(WishRows(c, p)) = 1 THEN CHOOSE r \in WishRows(c, p) : TRUE
  ELSE 0

\* GET /api/wishlist with a productId: the inWishlist flag of the answer
inWishlist(c, p) == WishOf(c, p) # 0

\* POST /api/wishlist up to the lookup of the existing row
WishReadExisting(p, c, prod) ==
  /\ calls[p].pc \in {"idle", "done"}
  /\ IF c = "" \/ prod = 0
     THEN /\ calls' = Answered(p, "wishAdd", 400)
          /\ resp' = [StorefrontReply("wishAdd", 400) EXCEPT
                        !.customer = c, !.product = prod]
     ELSE IF WishOf(c, prod) # 0
     THEN /\ calls' = Answered(p, "wishAdd", 200)
          /\ resp' = [StorefrontReply("wishAdd", 200) EXCEPT
                        !.customer = c, !.product = prod,
                        !.row = WishOf(c, prod)]
     ELSE /\ calls' = [calls EXCEPT ![p] =
                         [IdleCall EXCEPT !.pc = "insert", !.op = "wishAdd",
                                          !.arg = prod, !.user = c]]
          /\ resp' = BlankResp
  /\ UNCHANGED <<reviews, replies, wishlists, products, store_settings>>
  /\ UNCHANGED ledger

\* POST /api/wishlist: the insert
WishInsert(p) ==
  /\ calls[p].pc = "insert"
  /\ calls[p].op = "wishAdd"
  /\ FreeRow(wishlists) # 0
  /\ wishlists' = [wishlists EXCEPT ![FreeRow(wishlists)] =
                     [present |-> TRUE, customer_id |-> calls[p].user,
                      product_id |-> calls[p].arg]]
  /\ calls' = Answered(p, "wishAdd", 201)
  /\ resp' = [StorefrontReply("wishAdd", 201) EXCEPT
                !.customer = calls[p].user, !.product = calls[p].arg,
                !.row = FreeRow(wishlists)]
  /\ UNCHANGED <<reviews, replies, products, store_settings>>
  /\ UNCHANGED ledger

\* DELETE /api/wishlist
WishDelete(p, c, prod) ==
  /\ calls[p].pc \in {"idle", "done"}
  /\ IF c = "" \/ prod = 0
     THEN /\ calls' = Answered(p, "wishDelete", 400)
          /\ resp' = [StorefrontReply("wishDelete", 400) EXCEPT
                        !.customer = c, !.product = prod]
          /\ UNCHANGED wishlists
     ELSE /\ wishlists' = [r \in RowIds |->
                            IF r \in WishRows(c, prod) THEN BlankWish
                            ELSE wishlists[r]]
          /\ calls' = Answered(p, "wishDelete", 200)
          /\ resp' = [StorefrontReply("wishDelete", 200) EXCEPT
                        !.customer = c, !.product = prod]
  /\ UNCHANGED <<reviews, replies, products, store_settings>>
  /\ UNCHANGED ledger

\* mutation of HasOrders: the order_items lookup finds nothing
HasOrdersNever(id) == FALSE

\* whether the order_items lookup of product id returns a row
HasOrders(id) == id \in ProductIds /\ products[id].order_items > 0

\* the products rows with id id that belong to user u
OwnedProducts(id, u) ==
  {i \in ProductIds : i = id /\ products[i].present /\ products[i].user_id = u}

\* DELETE /api/products
deleteProduct(u, id) ==
  LET r == [StorefrontReply("deleteProduct", 0) EXCEPT !.user = u, !.product = id]
  IN
  /\ IF u = Anonymous
     THEN /\ resp' = [r EXCEPT !.status = 401]
          /\ UNCHANGED products
     ELSE IF id = 0
     THEN /\ resp' = [r EXCEPT !.status = 400]
          /\ UNCHANGED products
     ELSE IF HasOrders(id)
     THEN /\ products' = [i \in ProductIds |->
                           IF i \in OwnedProducts(id, u)
                           THEN [products[i] EXCEPT !.is_published = FALSE]
                           ELSE products[i]]
          /\ resp' = [r EXCEPT !.status = 200, !.msg = "unpublished"]
     ELSE /\ products' = [i \in ProductIds |->
                           IF i \in OwnedProducts(id, u) THEN BlankProduct
                           ELSE products[i]]
          /\ resp' = [r EXCEPT !.status = 200, !.msg = "deleted"]
  /\ UNCHANGED <<reviews, replies, wishlists, store_settings, calls>>
  /\ UNCHANGED ledger

\* PATCH /api/products with is_published
updateProduct(u, id, published) ==
  LET r == [StorefrontReply("updateProduct", 0) EXCEPT !.user = u, !.product = id]
  IN
  /\ IF u = Anonymous
     THEN /\ resp' = [r EXCEPT !.status = 401]
          /\ UNCHANGED products
     ELSE IF id = 0
     THEN /\ resp' = [r EXCEPT !.status = 400]
          /\ UNCHANGED products
     ELSE IF OwnedProducts(id, u) = {}
     THEN /\ resp' = [r EXCEPT !.status = 500]
          /\ UNCHANGED products
     ELSE /\ products' = [products EXCEPT ![id].is_published = published]
          /\ resp' = [r EXCEPT !.status = 200]
  /\ UNCHANGED <<reviews, replies, wishlists, store_settings, calls>>
  /\ UNCHANGED ledger

\* a slug is the sequence of its characters, of which three kinds matter:
\* "a" and "b" stand for lowercase letters and digits, "-" for the hyphen and
\* "A" for any other character
SlugChars == {"a", "b"}

\* slugRegex.test(slug) for /^[a-z0-9]+(?:-[a-z0-9]+)*$/
slugRegex(slug) ==
  /\ Len(slug) > 0
  /\ \A k \in 1..Len(slug) : slug[k] \in SlugChars \cup {"-"}
  /\ slug[1] # "-"
  /\ slug[Len(slug)] # "-"
  /\ \A k \in 1..(Len(slug) - 1) : ~(slug[k] = "-" /\ slug[k + 1] = "-")

\* the store_settings rows of user u
StoresOf(u) == {r \in RowIds : store_settings[r].present /\ store_settings[r].user_id = u}

\* whether .single() finds the store of user u: exactly one row matches
existingStore(u) == Cardinality(StoresOf(u)) = 1

\* whether .single() finds a store of another user with this slug
slugCheck(slug, u) ==
  Cardinality({r \in RowIds : /\ store_settings[r].present
                              /\ store_settings[r].store_slug = slug
                              /\ store_settings[r].user_id # u}) = 1

\* POST /api/store/settings up to the lookup of the caller's store
StoreReadOwn(p, u, named, slug) ==
  /\ calls[p].pc \in {"idle", "done"}
  /\ calls' =
       IF u = Anonymous THEN Answered(p, "createStore", 401)
       ELSE IF ~named \/ slug = <<>> THEN Answered(p, "createStore", 400)
       ELSE IF ~slugRegex(slug) THEN Answered(p, "createStore", 400)
       ELSE IF existingStore(u) THEN Answered(p, "createStore", 400)
       ELSE [calls EXCEPT ![p] = [IdleCall EXCEPT !.pc = "slug",
               !.op = "createStore", !.user = u, !.slug = slug]]
  /\ UNCHANGED <<reviews, replies, wishlists, products, store_settings>>
  /\ UNCHANGED resp
  /\ UNCHANGED ledger

\* POST /api/store/settings: the lookup of the slug among other users
StoreReadSlug(p) ==
  /\ calls[p].pc = "slug"
  /\ calls[p].op = "createStore"
  /\ calls' = IF slugCheck(calls[p].slug, calls[p].user)
              THEN Answered(p, "createStore", 409)
              ELSE [calls EXCEPT ![p].pc = "insert"]
  /\ UNCHANGED <<reviews, replies, wishlists, products, store_settings>>
  /\ UNCHANGED resp
  /\ UNCHANGED ledger

\* POST /api/store/settings: the insert
StoreInsert(p) ==
  /\ calls[p].pc = "insert"
  /\ calls[p].op = "createStore"
  /\ FreeRow(store_settings) # 0
  /\ store_settings' = [store_settings EXCEPT ![FreeRow(store_settings)] =
                          [present |-> TRUE, user_id |-> calls[p].user,
                           store_slug |-> calls[p].slug]]
  /\ calls' = Answered(p, "createStore", 201)
  /\ UNCHANGED <<reviews, replies, wishlists, products>>
  /\ UNCHANGED resp
  /\ UNCHANGED ledger

\* PATCH /api/store/settings up to the lookup of the slug among other users;
\* sent tells whether the body has a store_slug
StorePatchReadSlug(p, u, sent, slug) ==
  /\ calls[p].pc \in {"idle", "done"}
  /\ calls' =
       IF u = Anonymous THEN Answered(p, "updateStore", 401)
       ELSE IF sent /\ slug # <<>> /\ ~slugRegex(slug)
       THEN Answered(p, "updateStore", 400)
       ELSE IF sent /\ slug # <<>> /\ slugCheck(slug, u)
       THEN Answered(p, "updateStore", 409)
       ELSE [calls EXCEPT ![p] = [IdleCall EXCEPT !.pc = "update",
               !.op = "updateStore", !.user = u, !.slug = slug,
               !.found = IF sent THEN 1 ELSE 0]]
  /\ UNCHANGED <<reviews, replies, wishlists, products, store_settings>>
  /\ UNCHANGED resp
  /\ UNCHANGED ledger

\* PATCH /api/store/settings: the update of the caller's rows
StoreUpdate(p) ==
  /\ calls[p].pc = "update"
  /\ calls[p].op = "updateStore"
  /\ store_settings' =
       [r \in RowIds |->
          IF r \in StoresOf(calls[p].user) /\ calls[p].found = 1
          THEN [store_settings[r] EXCEPT !.store_slug = calls[p].slug]
          ELSE store_settings[r]]
  /\ calls' = IF existingStore(calls[p].user)
              THEN Answered(p, "updateStore", 200)
              ELSE Answered(p, "updateStore", 500)
  /\ UNCHANGED <<reviews, replies, wishlists, products>>
  /\ UNCHANGED resp
  /\ UNCHANGED ledger

---------------------------------------------------------------------------
(* Requests run one at a time *)

IdleProc ==
  [pc |-> "idle", op |-> "none", user |-> Anonymous, body |-> BlankBody,
   old |-> BlankSale, item |-> BlankItem, status |-> 0, err |-> "none"]

InitSales ==
  /\ items = [i \in ItemIds |->
               Item(IF i = 1 THEN "A" ELSE "B", BaseCost, InitStock)]
  /\ sales = [s \in SaleIds |-> BlankSale]
  /\ nextId = 1
  /\ origin = [s \in SaleIds |-> BlankOrigin]
  /\ resp = BlankResp
  /\ procs = [p \in Procs |-> IdleProc]

Init == InitSales /\ InitStorefront

Next ==
  \/ \E b \in PostBodies : recordSale("A", b)
  \/ \E b \in PatchBodies : updateSale("A", b)
  \/ \E id \in 0..MaxSales : deleteSale("A", id)
  \/ \E u \in Callers \ {"A"} :
       \/ recordSale(u, OneBody)
       \/ recordSale(u, [OneBody EXCEPT !.item_id = 2])
       \/ updateSale(u, OneBody)
       \/ deleteSale(u, 1)

Spec == Init /\ [][Next]_vars

---------------------------------------------------------------------------
(* Requests run one at a time while the cost of item 1 is edited *)

CostPostBodies ==
  { Plain(0, 1, SalePrice, q, f) : q \in 1..InitStock, f \in {NoFees, SomeFees} }
CostPatchBodies ==
  { Plain(id, 0, SalePrice, q, f) :
      id \in SaleIds, q \in 1..InitStock, f \in {NoFees, SomeFees} }

NextCost ==
  \/ \E b \in CostPostBodies : recordSale("A", b)
  \/ \E b \in CostPatchBodies : updateSale("A", b)
  \/ \E id \in SaleIds : deleteSale("A", id)
  \/ changePurchasePrice(1)

SpecCost == Init /\ [][NextCost]_vars

---------------------------------------------------------------------------
(* Requests run one at a time against a sales table with room for several
   sales of item 1 *)

LedgerSaleIds == 1..(MaxSales + 1)
LedgerPostBodies ==
  { Plain(0, 1, SalePrice, q, NoFees) : q \in 1..InitStock }
LedgerPatchBodies ==
  { Plain(id, 0, SalePrice, q, NoFees) :
      id \in LedgerSaleIds, q \in 0..(InitStock + 1) }
  \cup { Plain(id, 0, 0, 0, NoFees) : id \in LedgerSaleIds }

InitLedger ==
  /\ items = [i \in ItemIds |->
               Item(IF i = 1 THEN "A" ELSE "B", BaseCost, InitStock)]
  /\ sales = [s \in LedgerSaleIds |-> BlankSale]
  /\ nextId = 1
  /\ origin = [s \in LedgerSaleIds |-> BlankOrigin]
  /\ resp = BlankResp
  /\ procs = [p \in Procs |-> IdleProc]
  /\ InitStorefront

NextLedger ==
  \/ \E b \in LedgerPostBodies : recordSale("A", b)
  \/ \E b \in LedgerPatchBodies : updateSale("A", b)
  \/ \E id \in LedgerSaleIds : deleteSale("A", id)

SpecLedger == InitLedger /\ [][NextLedger]_vars

---------------------------------------------------------------------------
(* Requests of both users and of a caller not signed in, run one at a time,
   each naming its own and the other's items and sales *)

UserPostBodies ==
  { Plain(0, i, SalePrice, q, NoFees) : i \in ItemIds \cup {3}, q \in {1, InitStock} }
UserPatchBodies ==
  { Plain(id, 0, SalePrice, q, NoFees) : id \in 0..MaxSales, q \in {1, InitStock} }

NextUsers ==
  \E u \in Callers :
    \/ \E b \in UserPostBodies : recordSale(u, b)
    \/ \E b \in UserPatchBodies : updateSale(u, b)
    \/ \E id \in 0..MaxSales : deleteSale(u, id)

SpecUsers == Init /\ [][NextUsers]_vars

---------------------------------------------------------------------------
(* Requests run one at a time against a database whose calls may fail *)

NextFault ==
  \/ \E b \in CostPostBodies : recordSale("A", b)
  \/ \E b \in CostPatchBodies : updateSale("A", b)
  \/ \E id \in SaleIds : deleteSale("A", id)
  \/ \E b \in CostPostBodies : recordSaleInsertFails("A", b)
  \/ \E b \in CostPatchBodies : updateSaleSaleWriteFails("A", b)
  \/ \E b \in CostPatchBodies : updateSaleItemWriteFails("A", b)
  \/ \E id \in SaleIds : deleteSaleItemWriteFails("A", id)
  \/ \E id \in SaleIds : deleteSaleDeleteFails("A", id)

SpecFault == Init /\ [][NextFault]_vars

---------------------------------------------------------------------------
(* Shopping-list entries are marked purchased *)

\* every price with every quantity, and each other field left out in turn
PurchaseBodies ==
  { PurchaseBody(Str(1), p, Str(1), q, Str(1)) :
      p \in {Undef, Str(1), Num(0), Num(-BaseCost), Num(BaseCost), Half(BaseCost)},
      q \in {Undef, Str(1), Num(0), Num(-1), Num(1), Num(InitStock), Half(1)} }
  \cup { PurchaseBody(Undef, Num(BaseCost), Str(1), Num(1), Str(1)),
         PurchaseBody(Str(1), Num(BaseCost), Str(0), Num(1), Str(1)),
         PurchaseBody(Str(1), Num(BaseCost), Str(1), Num(1), Undef) }
\* what the procedure returns: an error, or the id of a new item
RpcResults == {0, 3}

NextPurchase ==
  \E u \in Callers, b \in PurchaseBodies, out \in RpcResults :
    markShoppingItemPurchased(u, b, out)

SpecPurchase == Init /\ [][NextPurchase]_vars

---------------------------------------------------------------------------
(* Requests in flight together: every await of POST is a step of its own *)

ConcPostBodies ==
  { Plain(0, 1, SalePrice, q, NoFees) : q \in 1..InitStock }
ConcPatchBodies ==
  { Plain(1, 0, SalePrice, q, NoFees) : q \in 1..InitStock }

Running(pc, op, u, b) ==
  [pc |-> pc, op |-> op, user |-> u, body |-> b, old |-> BlankSale,
   item |-> BlankItem, status |-> 0, err |-> "none"]
Ended(pr, status, err) ==
  [pr EXCEPT !.pc = "done", !.status = status, !.err = err]

\* POST up to the stock check (lines 49-115): the body is validated and
\* the item is read; the request ends here or goes on to the insert
PostReadItem(p, u, b) ==
  /\ procs[p].pc = "idle"
  /\ LET rej == PostReject(u, b) IN
     procs' = [procs EXCEPT ![p] =
                 IF rej.op # "none"
                 THEN Ended(Running("done", "recordSale", u, b), rej.status, rej.err)
                 ELSE [Running("insert", "recordSale", u, b)
                         EXCEPT !.item = items[b.item_id]]]
  /\ UNCHANGED <<storefront, items, sales, nextId, origin, resp>>

\* POST from the insert on (lines 117-149): the row is inserted and the
\* trigger moves the counters of the item as it is now
PostInsert(p) ==
  /\ procs[p].pc = "insert"
  /\ IF InsertRefused(procs[p].body)
     THEN /\ procs' = [procs EXCEPT ![p] = Ended(@, 500, "Internal")]
          /\ UNCHANGED <<storefront, items, sales, nextId>>
     ELSE /\ nextId \in DOMAIN sales
          /\ LET b == procs[p].body
                 i == b.item_id
                 row == TriggerProfit(InsertRow(procs[p].user, b),
                                      items[i].purchase_price)
             IN /\ sales' = [sales EXCEPT ![nextId] = row]
                /\ items' = [items EXCEPT ![i] =
                               TriggerCounters(@, row.quantity_sold)]
          /\ nextId' = nextId + 1
          /\ procs' = [procs EXCEPT ![p] = Ended(@, 201, "none")]
  /\ UNCHANGED <<storefront, origin, resp>>

\* PATCH lines 159-189: the sale is read
PatchReadSale(p, u, b) ==
  /\ procs[p].pc = "idle"
  /\ procs' = [procs EXCEPT ![p] =
       IF u = Anonymous
         THEN Ended(Running("done", "updateSale", u, b), 401, "Unauthorized")
       ELSE IF b.id = 0
         THEN Ended(Running("done", "updateSale", u, b), 400, "InvalidInput")
       ELSE IF ~OwnedSale(b.id, u)
         THEN Ended(Running("done", "updateSale", u, b), 404, "NotFound")
       ELSE [Running("patch_item", "updateSale", u, b) EXCEPT !.old = sales[b.id]]]
  /\ UNCHANGED <<storefront, items, sales, nextId, origin, resp>>

\* PATCH lines 191-201: the item is read and the stock is checked
PatchReadItem(p) ==
  /\ procs[p].pc = "patch_item"
  /\ LET pr == procs[p]
         item == items[pr.old.item_id]
     IN procs' = [procs EXCEPT ![p] =
          IF IsNum(pr.body.quantity_sold)
               /\ PatchShortStock(item, QuantityDiff(pr.body, pr.old))
          THEN Ended([pr EXCEPT !.item = item], 400, "InsufficientStock")
          ELSE [pr EXCEPT !.pc = "patch_sale", !.item = item]]
  /\ UNCHANGED <<storefront, items, sales, nextId, origin, resp>>

\* PATCH lines 203-235: the profit is computed from the item read and the
\* sale row is written; .single() on a row that is gone is an error
PatchUpdateSale(p) ==
  /\ procs[p].pc = "patch_sale"
  /\ LET pr == procs[p]
         b == pr.body
         gone == ~sales[b.id].present
         nan == ~IsNum(b.quantity_sold) \/ ~IsNum(b.sale_price)
     IN IF gone \/ nan
        THEN /\ procs' = [procs EXCEPT ![p] = Ended(pr, 500, "Internal")]
             /\ UNCHANGED sales
        ELSE LET row == PatchRow(sales[b.id], b, PatchCost(pr.item, pr.old)) IN
             IF row.profit_margin = NonFinite
             THEN /\ procs' = [procs EXCEPT ![p] = Ended(pr, 500, "Internal")]
                  /\ UNCHANGED sales
             ELSE /\ sales' = [sales EXCEPT ![b.id] = row]
                  /\ procs' = [procs EXCEPT ![p] =
                        IF QuantityDiff(b, pr.old) # 0
                        THEN [pr EXCEPT !.pc = "patch_counters"]
                        ELSE Ended(pr, 200, "none")]
  /\ UNCHANGED <<storefront, items, nextId, origin, resp>>

\* PATCH lines 237-248: the counters computed from the item read earlier
\* are written
PatchUpdateItem(p) ==
  /\ procs[p].pc = "patch_counters"
  /\ LET pr == procs[p]
         i == pr.old.item_id
     IN items' = [items EXCEPT ![i] =
          [@ EXCEPT
             !.quantity_on_hand =
                PatchCounters(pr.item, QuantityDiff(pr.body, pr.old)).quantity_on_hand,
             !.quantity_sold =
                PatchCounters(pr.item, QuantityDiff(pr.body, pr.old)).quantity_sold]]
  /\ procs' = [procs EXCEPT ![p] = Ended(@, 200, "none")]
  /\ UNCHANGED <<storefront, sales, nextId, origin, resp>>

\* DELETE lines 258-283: the sale is read
DeleteReadSale(p, u, id) ==
  /\ procs[p].pc = "idle"
  /\ LET b == [BlankBody EXCEPT !.id = id] IN
     procs' = [procs EXCEPT ![p] =
       IF u = Anonymous
         THEN Ended(Running("done", "deleteSale", u, b), 401, "Unauthorized")
       ELSE IF id = 0
         THEN Ended(Running("done", "deleteSale", u, b), 400, "InvalidInput")
       ELSE IF ~OwnedSale(id, u)
         THEN Running("delete_row", "deleteSale", u, b)
       ELSE [Running("delete_item", "deleteSale", u, b) EXCEPT !.old = sales[id]]]
  /\ UNCHANGED <<storefront, items, sales, nextId, origin, resp>>

\* DELETE lines 285-291: the item is read
DeleteReadItem(p) ==
  /\ procs[p].pc = "delete_item"
  /\ procs' = [procs EXCEPT ![p].pc = "delete_counters",
                            ![p].item = items[procs[p].old.item_id]]
  /\ UNCHANGED <<storefront, items, sales, nextId, origin, resp>>

\* DELETE lines 292-299: the counters computed from the rows read earlier
\* are written
DeleteUpdateItem(p) ==
  /\ procs[p].pc = "delete_counters"
  /\ LET pr == procs[p]
         i == pr.old.item_id
     IN items' = [items EXCEPT ![i] =
          [@ EXCEPT
             !.quantity_on_hand = DeleteCounters(pr.item, pr.old).quantity_on_hand,
             !.quantity_sold = DeleteCounters(pr.item, pr.old).quantity_sold]]
  /\ procs' = [procs EXCEPT ![p].pc = "delete_row"]
  /\ UNCHANGED <<storefront, sales, nextId, origin, resp>>

\* DELETE lines 302-313: the row is deleted if it is there and the
\* caller's
DeleteRow(p) ==
  /\ procs[p].pc = "delete_row"
  /\ LET pr == procs[p] IN
     sales' = IF OwnedSale(pr.body.id, pr.user)
              THEN [sales EXCEPT ![pr.body.id] = BlankSale]
              ELSE sales
  /\ procs' = [procs EXCEPT ![p] = Ended(@, 200, "none")]
  /\ UNCHANGED <<storefront, items, nextId, origin, resp>>

\* the sale recorded before the concurrent requests arrive
SeedBody == Plain(0, 1, SalePrice, 1, NoFees)
SeedSale == TriggerProfit(InsertRow("A", SeedBody), BaseCost)
\* the seeded sale and one row for each request
ConcSaleIds == 1..(MaxProcs + 1)
\* units of item 1 on hand when the concurrent requests arrive
ConcStock == InitStock - SeedSale.quantity_sold

InitConc ==
  /\ items = [i \in ItemIds |->
               IF i = 1
               THEN TriggerCounters(Item("A", BaseCost, InitStock),
                                    SeedSale.quantity_sold)
               ELSE Item("B", BaseCost, InitStock)]
  /\ sales = [s \in ConcSaleIds |-> IF s = 1 THEN SeedSale ELSE BlankSale]
  /\ nextId = 2
  /\ origin = [s \in ConcSaleIds |-> BlankOrigin]
  /\ resp = BlankResp
  /\ procs = [p \in Procs |-> IdleProc]
  /\ InitStorefront

NextConc ==
  \/ \E p \in Procs, b \in ConcPostBodies : PostReadItem(p, "A", b)
  \/ \E p \in Procs : PostInsert(p)
  \/ \E p \in Procs, b \in ConcPatchBodies : PatchReadSale(p, "A", b)
  \/ \E p \in Procs : PatchReadItem(p)
  \/ \E p \in Procs : PatchUpdateSale(p)
  \/ \E p \in Procs : PatchUpdateItem(p)
  \/ \E p \in Procs : DeleteReadSale(p, "A", 1)
  \/ \E p \in Procs : DeleteReadItem(p)
  \/ \E p \in Procs : DeleteUpdateItem(p)
  \/ \E p \in Procs : DeleteRow(p)

SpecConc == InitConc /\ [][NextConc]_vars

---------------------------------------------------------------------------
(* Reviews are created and updated one request at a time *)

Ratings == {Undef, Num(0), Num(1), Num(5), Num(6)}

NextReviews ==
  \/ \E c \in Customers \cup {""}, p \in {0, 1}, rating \in Ratings,
        content \in BOOLEAN :
       createReview(c, p, rating, content)
  \/ \E id \in {0} \cup RowIds \cup {MaxRows + 1}, c \in Customers \cup {""},
        rating \in Ratings :
       updateReview(id, c, rating)

SpecReviews == Init /\ [][NextReviews]_vars

---------------------------------------------------------------------------
(* Sellers reply to reviews, their requests interleaving at each database
   call *)

\* each seller has one product and each product has one review
SeededProducts ==
  [i \in ProductIds |-> [present |-> TRUE, user_id |-> IF i = 1 THEN "A" ELSE "B",
                         is_published |-> TRUE, order_items |-> 0]]

SeededReviews ==
  [r \in RowIds |-> IF r \in ProductIds
                    THEN [present |-> TRUE, customer_id |-> "c1",
                          product_id |-> r, rating |-> 5]
                    ELSE BlankReview]

InitReplies ==
  /\ InitSales
  /\ reviews = SeededReviews
  /\ replies = [r \in RowIds |-> BlankReply]
  /\ wishlists = [r \in RowIds |-> BlankWish]
  /\ products = SeededProducts
  /\ store_settings = [r \in RowIds |-> BlankStore]
  /\ calls = [p \in Procs |-> IdleCall]

ReplyBodies ==
  {[user |-> u, reviewId |-> id, content |-> 1] :
     u \in Callers, id \in {0} \cup ProductIds}
  \cup {[user |-> "A", reviewId |-> 1, content |-> c] : c \in {0, 2}}

NextReplies ==
  \/ \E p \in Procs, b \in ReplyBodies :
       ReplyReadReview(p, b.user, b.reviewId, b.content)
  \/ \E p \in Procs : ReplyReadExisting(p)
  \/ \E p \in Procs : ReplyWrite(p)

SpecReplies == InitReplies /\ [][NextReplies]_vars

---------------------------------------------------------------------------
(* Customers add to and remove from their wishlists, their requests
   interleaving at each database call *)

WishBodies ==
  {[customerId |-> c, productId |-> 1] : c \in Customers \cup {""}}
  \cup {[customerId |-> "c1", productId |-> i] : i \in {0, 2}}

NextWishlist ==
  \/ \E p \in Procs, b \in WishBodies :
       WishReadExisting(p, b.customerId, b.productId)
  \/ \E p \in Procs : WishInsert(p)
  \/ \E p \in Procs, b \in WishBodies :
       WishDelete(p, b.customerId, b.productId)

SpecWishlist == Init /\ [][NextWishlist]_vars

---------------------------------------------------------------------------
(* Sellers unpublish, republish and delete products one request at a time *)

\* each seller has one published product, ordered or not
InitProducts ==
  /\ InitSales
  /\ reviews = [r \in RowIds |-> BlankReview]
  /\ replies = [r \in RowIds |-> BlankReply]
  /\ wishlists = [r \in RowIds |-> BlankWish]
  /\ \E n \in [ProductIds -> {0, 1}] :
       products = [i \in ProductIds |->
                    [SeededProducts[i] EXCEPT !.order_items = n[i]]]
  /\ store_settings = [r \in RowIds |-> BlankStore]
  /\ calls = [p \in Procs |-> IdleCall]

NextProducts ==
  \/ \E u \in Callers, id \in {0} \cup ProductIds \cup {3} : deleteProduct(u, id)
  \/ \E u \in Callers, id \in {0} \cup ProductIds \cup {3},
        published \in BOOLEAN :
       updateProduct(u, id, published)

SpecProducts == InitProducts /\ [][NextProducts]_vars

---------------------------------------------------------------------------
(* Sellers create and update their store settings, their requests
   interleaving at each database call *)

GoodSlugs == {<<"a">>, <<"a", "-", "b">>}
BadSlugs == {<<"A">>, <<"a", "-", "-", "b">>, <<"a", "-">>}

StorePostBodies ==
  {[user |-> u, store_name |-> TRUE, store_slug |-> g] :
     u \in Users, g \in GoodSlugs}
  \cup {[user |-> "A", store_name |-> TRUE, store_slug |-> g] :
          g \in BadSlugs \cup {<<>>}}
  \cup {[user |-> "A", store_name |-> FALSE, store_slug |-> <<"a">>],
        [user |-> Anonymous, store_name |-> TRUE, store_slug |-> <<"a">>]}

StorePatchBodies ==
  {[user |-> u, sent |-> TRUE, store_slug |-> g] :
     u \in Users, g \in GoodSlugs \cup {<<>>}}
  \cup {[user |-> "A", sent |-> TRUE, store_slug |-> g] : g \in BadSlugs}
  \cup {[user |-> "A", sent |-> FALSE, store_slug |-> <<>>],
        [user |-> Anonymous, sent |-> TRUE, store_slug |-> <<"a">>]}

NextStores ==
  \/ \E p \in Procs, b \in StorePostBodies :
       StoreReadOwn(p, b.user, b.store_name, b.store_slug)
  \/ \E p \in Procs : StoreReadSlug(p)
  \/ \E p \in Procs : StoreInsert(p)
  \/ \E p \in Procs, b \in StorePatchBodies :
       StorePatchReadSlug(p, b.user, b.sent, b.store_slug)
  \/ \E p \in Procs : StoreUpdate(p)

SpecStores == Init /\ [][NextStores]_vars

---------------------------------------------------------------------------
(* Properties *)

\* what the specification calls a valid recordSale request: the caller owns
\* the item, platform and date are given, the price is a number >= 0 and
\* the quantity is an integer > 0
SpecValid(r) ==
  /\ OwnedItem(r.body.item_id, r.user)
  /\ ~Falsy(r.body.platform) /\ ~Falsy(r.body.sale_date)
  /\ IsNum(r.body.sale_price) /\ r.body.sale_price.v >= 0
  /\ IsNum(r.body.quantity_sold) /\ r.body.quantity_sold.v > 0

\* a fee of the request, an omitted one counted as 0
Fee(x) == IF x.t = "undef" THEN 0 ELSE x.v
Fees(b) == Fee(b.platform_fees) + Fee(b.shipping_cost) + Fee(b.other_fees)

\* the item a recordSale request names, as it was before the request
ItemBefore(r) == IF r.status = 201 THEN r.item ELSE items[r.body.item_id]

Created == resp.op = "recordSale" /\ resp.status = 201
Updated == resp.op = "updateSale" /\ resp.status = 200
\* an updateSale that found the sale and carries a numeric quantity
UpdateOf == resp.op = "updateSale" /\ resp.old_sale.present
              /\ IsNum(resp.body.quantity_sold)
RespDiff == resp.body.quantity_sold.v - resp.old_sale.quantity_sold

\* C1: every item keeps quantity_on_hand + quantity_sold = quantity_purchased
\* through every sequence of recordSale, updateSale and deleteSale calls,
\* successful or rejected.
C1_CountersConserved ==
  \A i \in ItemIds :
    items[i].quantity_on_hand + items[i].quantity_sold
      = items[i].quantity_purchased

\* an update has just moved units between the two counters of an item
C1_Witness ==
  /\ Updated /\ resp.body.quantity_sold.v > 0
  /\ items[resp.item_id].quantity_on_hand # resp.item.quantity_on_hand
  /\ items[resp.item_id].quantity_sold # resp.item.quantity_sold

\* C2: a recordSale with valid input whose quantity is at most the stock
\* (also exactly the stock) succeeds with 201, creates the Sale row and
\* moves that quantity from quantity_on_hand to quantity_sold.
C2_ValidSaleWithinStockSucceeds ==
  (/\ resp.op = "recordSale"
   /\ SpecValid(resp)
   /\ resp.body.quantity_sold.v <= ItemBefore(resp).quantity_on_hand)
  => /\ resp.status = 201
     /\ sales[resp.sale_id].present
     /\ items[resp.body.item_id].quantity_on_hand
          = resp.item.quantity_on_hand - resp.body.quantity_sold.v
     /\ items[resp.body.item_id].quantity_sold
          = resp.item.quantity_sold + resp.body.quantity_sold.v

\* C3: deleting a sale that alone has touched its item since it was
\* recorded, whatever updates it went through, leaves the item with the
\* quantity_on_hand and quantity_sold it had before the recordSale.
C3_RoundTripRestoresCounters ==
  (/\ resp.op = "deleteSale" /\ resp.status = 200
   /\ resp.old_sale.present /\ resp.origin.clean)
  => /\ items[resp.item_id].quantity_on_hand = resp.origin.quantity_on_hand
     /\ items[resp.item_id].quantity_sold = resp.origin.quantity_sold
     /\ ~sales[resp.sale_id].present

\* a sale recorded, updated to another quantity and then deleted
C3_Witness ==
  /\ resp.op = "deleteSale" /\ resp.status = 200
  /\ resp.old_sale.present /\ resp.origin.clean /\ resp.origin.updated
  /\ resp.old_sale.quantity_sold > 0

\* C5: the sale a recordSale creates has gross_profit = (sale_price -
\* purchase_price) * quantity_sold and net_profit = gross_profit minus the
\* three fees of the request, an omitted fee counted as 0 and the
\* purchase_price being the item's at the time of the call.
C5_CreatedSaleProfit ==
  Created =>
    LET b == resp.body
        gross == (b.sale_price.v - resp.item.purchase_price) * b.quantity_sold.v
    IN /\ sales[resp.sale_id] = resp.sale
       /\ resp.sale.gross_profit = gross
       /\ resp.sale.net_profit = gross - Fees(b)

\* a sale with fees recorded after the item's cost was edited
C5_Witness ==
  /\ Created
  /\ resp.item.purchase_price # BaseCost
  /\ Fees(resp.body) > 0
  /\ resp.sale.net_profit # resp.sale.gross_profit

C7_OversizedSaleRejected ==
  (/\ resp.op = "recordSale"
   /\ SpecValid(resp)
   /\ resp.body.quantity_sold.v > ItemBefore(resp).quantity_on_hand)
  => /\ resp.status = 400
     /\ resp.err = "InsufficientStock"
     /\ resp.available = items[resp.body.item_id].quantity_on_hand

\* C8: an updateSale that needs more additional units than the item has on
\* hand fails with InsufficientStock and changes nothing: the Sale row and
\* the item are as read.
C8_UpdateShortOfStockRejected ==
  (/\ UpdateOf
   /\ RespDiff > 0
   /\ resp.item.quantity_on_hand < RespDiff)
  => /\ resp.status = 400
     /\ resp.err = "InsufficientStock"
     /\ resp.needed = RespDiff
     /\ resp.available = resp.item.quantity_on_hand
     /\ sales[resp.sale_id] = resp.old_sale
     /\ items[resp.item_id] = resp.item

\* a sale is raised by one unit while nothing is left on hand
C8_Witness ==
  /\ UpdateOf
  /\ RespDiff = 1
  /\ resp.item.quantity_on_hand = 0
  /\ resp.old_sale.net_profit # 0
  /\ resp.status = 400

\* C9: an updateSale is not rejected for stock when quantityDiff <= 0 or
\* quantityDiff <= quantity_on_hand, and when it succeeds the item has
\* quantity_on_hand lowered and quantity_sold raised by quantityDiff.
C9_UpdateMovesCountersByDiff ==
  UpdateOf =>
    /\ (RespDiff <= 0 \/ RespDiff <= resp.item.quantity_on_hand)
         => resp.err # "InsufficientStock"
    /\ resp.status = 200 =>
         /\ items[resp.item_id].quantity_on_hand
              = resp.item.quantity_on_hand - RespDiff
         /\ items[resp.item_id].quantity_sold
              = resp.item.quantity_sold + RespDiff

\* a sale of two reduced to one: on hand 0 -> 1, sold 2 -> 1
C9_Witness ==
  /\ Updated /\ resp.body.sale_price.v = SalePrice
  /\ resp.old_sale.quantity_sold = 2 /\ resp.body.quantity_sold.v = 1
  /\ items[resp.item_id].quantity_on_hand = resp.item.quantity_on_hand + 1
  /\ items[resp.item_id].quantity_sold = 1

\* C10: a successful updateSale stores gross_profit = (sale_price - P) *
\* quantity_sold, net_profit = gross_profit minus the fees and
\* profit_margin = net_profit / (sale_price * quantity_sold) * 100 when
\* sale_price > 0 and 0 otherwise, P being the item's purchase_price read
\* during the update; the margin computation never divides by zero.
C10_UpdateRecomputesProfit ==
  /\ Updated =>
       LET b == resp.body
           gross == (b.sale_price.v - resp.item.purchase_price) * b.quantity_sold.v
       IN /\ sales[resp.sale_id].gross_profit = gross
          /\ sales[resp.sale_id].net_profit = gross - Fees(b)
          /\ sales[resp.sale_id].profit_margin =
                IF b.sale_price.v > 0
                THEN Rat((gross - Fees(b)) * 100, b.sale_price.v * b.quantity_sold.v)
                ELSE ZeroRat
  /\ resp.op = "updateSale" => ~resp.div_by_zero

\* units sold by the requests among ps that have ended in success
RECURSIVE UnitsSold(_)
UnitsSold(ps) ==
  IF ps = {} THEN 0
  ELSE LET p == CHOOSE x \in ps : TRUE
       IN (IF procs[p].status = 201 THEN procs[p].body.quantity_sold.v ELSE 0)
            + UnitsSold(ps \ {p})

\* C4: when recordSale requests for one item run concurrently, the
\* quantities of those that succeed never add up to more than the stock
\* there was before them, and quantity_on_hand never falls below 0.
C4_ConcurrentSalesDoNotOversell ==
  /\ (\A p \in Procs : procs[p].op \in {"none", "recordSale"})
       => UnitsSold(Procs) <= ConcStock
  /\ \A i \in ItemIds : items[i].quantity_on_hand >= 0

\* C11: from an item with no sales, in every state reached by recordSale,
\* updateSale and deleteSale calls the item's quantity_sold is the sum of
\* quantity_sold over the Sale rows that reference it, and quantity_on_hand
\* is quantity_purchased minus that sum.
C11_CountersMatchSales ==
  \A i \in ItemIds :
    /\ items[i].quantity_sold = SoldOn(i, DOMAIN sales)
    /\ items[i].quantity_on_hand
         = items[i].quantity_purchased - SoldOn(i, DOMAIN sales)

\* two sales of one item exist and an update has just changed the
\* quantity of one of them
C11_Witness ==
  /\ Updated /\ RespDiff # 0
  /\ \E s, t \in DOMAIN sales :
       /\ s # t /\ sales[s].present /\ sales[t].present
       /\ sales[s].item_id = sales[t].item_id
       /\ sales[t].quantity_sold > 0

\* the request answered by the step names a sale that does not exist or
\* is not the caller's
ForeignSale ==
  LET id == resp'.body.id
  IN /\ resp'.user # Anonymous
     /\ id # 0
     /\ \/ id \notin DOMAIN sales
        \/ ~sales[id].present
        \/ sales[id].user_id # resp'.user

\* C12: a deleteSale of a sale id that does not exist or is not the
\* caller's changes no Item and no Sale row and answers 200, so deleting
\* the same sale a second time does not restore stock again.
C12_DeleteOfMissingSaleIsNoOp ==
  [][(resp'.op = "deleteSale" /\ ForeignSale)
       => /\ resp'.status = 200
          /\ items' = items
          /\ sales' = sales]_vars

\* sale 1 was recorded and deleted, and has just been deleted once more
C12_Witness ==
  /\ resp.op = "deleteSale" /\ resp.status = 200 /\ resp.user = "A"
  /\ resp.body.id = 1 /\ ~resp.old_sale.present
  /\ nextId > 1 /\ ~sales[1].present
  /\ items[1].quantity_on_hand = InitStock /\ items[1].quantity_sold = 0

\* a recordSale by a signed-in caller whose fields other than sale_price
\* are all given
PriceOnly ==
  /\ resp.op = "recordSale" /\ resp.user # Anonymous
  /\ resp.body.item_id # 0
  /\ ~Falsy(resp.body.platform) /\ ~Falsy(resp.body.sale_date)
  /\ ~Falsy(resp.body.quantity_sold)

\* C13: recordSale takes every numeric sale_price >= 0, 0 included, as
\* valid, and rejects with InvalidInput (400) exactly the requests whose
\* sale_price is missing, not a number or negative.
C13_PriceZeroAccepted ==
  PriceOnly =>
    LET price == resp.body.sale_price
        bad == ~IsNum(price) \/ price.v < 0
        refused == /\ resp.status = 400 /\ resp.err = "InvalidInput"
                   /\ resp.msg \in {"missing", "price"}
    IN bad <=> refused

\* C14: recordSale rejects with InvalidInput (400), creating no Sale and
\* changing no Item, every request whose quantity_sold is not an integer
\* greater than 0: zero, negative, fractional or not a number.
C14_QuantityMustBePositiveInteger ==
  [][(/\ resp'.op = "recordSale" /\ resp'.user # Anonymous
      /\ ~(IsNum(resp'.body.quantity_sold) /\ resp'.body.quantity_sold.v > 0))
       => /\ resp'.status = 400 /\ resp'.err = "InvalidInput"
          /\ items' = items
          /\ sales' = sales]_vars

\* C15: a recordSale, otherwise valid, whose item_id names no item or an
\* item of another user fails with NotFound (404), creates no Sale row and
\* changes no Item.
C15_UnknownItemNotFound ==
  [][(/\ resp'.op = "recordSale" /\ resp'.user # Anonymous
      /\ resp'.body.item_id # 0
      /\ ~Falsy(resp'.body.platform) /\ ~Falsy(resp'.body.sale_date)
      /\ IsNum(resp'.body.sale_price) /\ resp'.body.sale_price.v >= 0
      /\ IsNum(resp'.body.quantity_sold) /\ resp'.body.quantity_sold.v > 0
      /\ ~OwnedItem(resp'.body.item_id, resp'.user))
       => /\ resp'.status = 404 /\ resp'.err = "NotFound"
          /\ items' = items
          /\ sales' = sales]_vars

\* C16: an updateSale of a sale id that does not exist or is not the
\* caller's fails with NotFound (404) and changes no Sale row and no Item.
C16_UpdateOfMissingSaleNotFound ==
  [][(resp'.op = "updateSale" /\ ForeignSale)
       => /\ resp'.status = 404 /\ resp'.err = "NotFound"
          /\ items' = items
          /\ sales' = sales]_vars

\* user B has just tried to update a sale that A owns
C16_Witness ==
  /\ resp.op = "updateSale" /\ resp.user = "B" /\ resp.status = 404
  /\ resp.body.id = 1
  /\ sales[1].present /\ sales[1].user_id = "A"
  /\ items[1].quantity_sold = sales[1].quantity_sold

\* C17: whenever a persistence step of recordSale, updateSale or
\* deleteSale fails, the write of the item's counters included, the
\* response to that request is an error, never 200 or 201.
C17_FailuresAreReported ==
  resp.failed # "none" => resp.status \notin {200, 201}

\* C18: markShoppingItemPurchased calls the mark-purchased procedure only
\* when the five fields are all present, actual_price is a number > 0 and
\* quantity is an integer > 0; otherwise it answers InvalidInput (400)
\* without calling it; after a successful call it returns the procedure's
\* result as new_item_id.
C18_PurchaseValidatedBeforeCall ==
  (resp.op = "markShoppingItemPurchased" /\ resp.user # Anonymous) =>
    LET b == resp.body
        ok == /\ ~PurchaseMissing(b)
              /\ (IsNum(b.actual_price) \/ IsHalf(b.actual_price))
              /\ ~NotPositive(b.actual_price)
              /\ IsNum(b.quantity) /\ b.quantity.v > 0
    IN /\ resp.called => ok
       /\ ~ok => (resp.status = 400 /\ resp.err = "InvalidInput")
       /\ resp.status = 200 => (resp.called /\ resp.new_item_id = resp.rpc)

\* C19: whatever ids a user sends in recordSale, updateSale and deleteSale
\* requests, no Sale row of another user and no Item of another user is
\* modified or deleted, and none is read into the result of the request.
C19_OwnershipExclusive ==
  [][LET u == resp'.user
     IN /\ \A s \in DOMAIN sales :
             (sales[s].present /\ sales[s].user_id # u) => sales'[s] = sales[s]
        /\ \A i \in ItemIds :
             items[i].user_id # u => items'[i] = items[i]
        /\ resp'.old_sale.present => resp'.old_sale.user_id = u
        /\ resp'.sale.present => resp'.sale.user_id = u
        /\ resp'.item_id # 0 => resp'.item.user_id = u]_vars

\* user A has just asked to delete a sale that B recorded on B's item
C19_Witness ==
  /\ resp.op = "deleteSale" /\ resp.user = "A" /\ resp.body.id = 1
  /\ sales[1].present /\ sales[1].user_id = "B"
  /\ items[2].user_id = "B"
  /\ items[2].quantity_sold = sales[1].quantity_sold
  /\ items[2].quantity_sold > 0

\* C20: every stored Sale row has gross_profit = (sale_price - purchase
\* price) * quantity_sold and net_profit = gross_profit minus its own
\* stored platform_fees, shipping_cost and other_fees, also after an
\* updateSale that leaves a fee field out.
C20_StoredProfitMatchesStoredInputs ==
  \A s \in DOMAIN sales :
    sales[s].present =>
      /\ sales[s].gross_profit
           = (sales[s].sale_price - items[sales[s].item_id].purchase_price)
               * sales[s].quantity_sold
      /\ sales[s].net_profit
           = sales[s].gross_profit - sales[s].platform_fees
               - sales[s].shipping_cost - sales[s].other_fees

\* C21: through every sequence of recordSale, updateSale and deleteSale
\* calls run one after another, with arbitrary bodies, every Item has
\* quantity_on_hand >= 0 and quantity_sold >= 0.
C21_CountersNeverNegative ==
  \A i \in ItemIds :
    items[i].quantity_on_hand >= 0 /\ items[i].quantity_sold >= 0

\* C22: every Sale row that exists has a quantity_sold > 0 (the model
\* stores integers only), a sale_price >= 0 and fees >= 0, and no
\* recordSale or updateSale carrying a value outside these ranges succeeds.
C22_StoredSaleInRange ==
  /\ \A s \in DOMAIN sales :
       sales[s].present =>
         /\ sales[s].quantity_sold > 0
         /\ sales[s].sale_price >= 0
         /\ sales[s].platform_fees >= 0
         /\ sales[s].shipping_cost >= 0
         /\ sales[s].other_fees >= 0
  /\ (Created \/ Updated) =>
       /\ IsNum(resp.body.quantity_sold) /\ resp.body.quantity_sold.v > 0
       /\ resp.body.sale_price.v >= 0

\* C23: after a successful updateSale the sale's platform, sale_price,
\* sale_date, quantity_sold and fees are those of the request, a fee the
\* request leaves out being 0, and its item and owner are as before.
C23_UpdateReplacesAllFields ==
  Updated =>
    LET b == resp.body
        row == sales[resp.sale_id]
    IN /\ row.sale_price = b.sale_price.v
       /\ row.quantity_sold = b.quantity_sold.v
       /\ row.platform = b.platform.v
       /\ row.sale_date = b.sale_date.v
       /\ row.platform_fees = Fee(b.platform_fees)
       /\ row.shipping_cost = Fee(b.shipping_cost)
       /\ row.other_fees = Fee(b.other_fees)
       /\ row.item_id = resp.old_sale.item_id
       /\ row.user_id = resp.old_sale.user_id

\* every request has ended or has not begun
Quiet == \A p \in Procs : procs[p].pc \in {"idle", "done"}

\* C24: when a deleteSale runs concurrently with another deleteSale of the
\* same sale, or with an updateSale or recordSale on the same item, the
\* item's counters end as after some serial order of the requests: they
\* agree with the sales that remain, the deleted sale's quantity given
\* back once and no counter write lost.
C24_ConcurrentDeleteSerializable ==
  (Quiet /\ \E p \in Procs : procs[p].op = "deleteSale") =>
    \A i \in ItemIds :
      /\ items[i].quantity_sold = SoldOn(i, DOMAIN sales)
      /\ items[i].quantity_on_hand
           = items[i].quantity_purchased - SoldOn(i, DOMAIN sales)

\* C25: whenever recordSale, updateSale or deleteSale answers with an
\* error (4xx or 5xx) the items and sales are as they were before the
\* request, also when the failing step is the deletion of the row or the
\* write of the sale.
C25_ErrorLeavesStateUnchanged ==
  [][(resp'.op \in {"recordSale", "updateSale", "deleteSale"}
        /\ resp'.status >= 400)
       => (items' = items /\ sales' = sales)]_vars

\* C26: every stored review has a rating between 1 and 5 after any sequence
\* of review POST and PATCH requests, and a request that would store a rating
\* outside 1..5 is rejected and leaves the reviews unchanged
C26_StoredRatingInRange ==
  /\ \A r \in RowIds : reviews[r].present => reviews[r].rating \in 1..5
  /\ (/\ resp.op \in {"createReview", "updateReview"}
      /\ resp.rating.t # "undef"
      /\ RatingOutOfRange(resp.rating)) => resp.status >= 400

\* C27: after any interleaving of reply POST requests a review has at most
\* one seller reply, and every reply was written by the owner of the reviewed
\* product
C27_OneReplyPerReview ==
  /\ \A id \in RowIds :
       Cardinality({r \in RowIds : replies[r].present /\ replies[r].review_id = id}) <= 1
  /\ \A r \in RowIds : replies[r].present =>
       ReviewOfSeller(replies[r].review_id, replies[r].user_id)

\* C28: after any interleaving of wishlist POST and DELETE requests there is
\* at most one wishlist row for each customer and product, a POST for a pair
\* already present answers with the existing row, and right after a DELETE
\* of a pair the in-wishlist check of that pair is false
C28_WishlistIdempotent ==
  /\ \A c \in Customers, i \in ProductIds : Cardinality(WishRows(c, i)) <= 1
  /\ (resp.op = "wishAdd" /\ resp.status = 200) =>
       resp.row \in WishRows(resp.customer, resp.product)
  /\ (resp.op = "wishDelete" /\ resp.status = 200) =>
       ~inWishlist(resp.customer, resp.product)

\* C29: the product DELETE operation keeps a product that has an order item
\* and sets its is_published to false, deletes a product without order
\* items, and in both cases changes only a product owned by the caller
C29_OrderedProductKept ==
  [][resp'.op = "deleteProduct" =>
      \A i \in ProductIds :
        IF /\ products[i].present
           /\ resp'.status = 200
           /\ i = resp'.product
           /\ products[i].user_id = resp'.user
        THEN IF products[i].order_items > 0
             THEN products'[i] = [products[i] EXCEPT !.is_published = FALSE]
             ELSE ~products'[i].present
        ELSE products'[i] = products[i]]_vars

C29_Witness ==
  /\ resp.op = "deleteProduct"
  /\ resp.msg = "unpublished"
  /\ resp.product \in ProductIds
  /\ products[resp.product].present
  /\ products[resp.product].user_id = resp.user
  /\ products[resp.product].order_items > 0
  /\ ~products[resp.product].is_published
  /\ \E i \in ProductIds : ~products[i].present

\* C30: after any interleaving of store-settings POST and PATCH requests each
\* user has at most one store_settings row, no two users' stores share a
\* store_slug, and every stored store_slug is made of lowercase alphanumeric
\* groups separated by single hyphens
C30_StoresUniqueAndWellFormed ==
  /\ \A u \in Users : Cardinality(StoresOf(u)) <= 1
  /\ \A r, q \in RowIds :
       (/\ store_settings[r].present /\ store_settings[q].present
        /\ store_settings[r].user_id # store_settings[q].user_id)
       => store_settings[r].store_slug # store_settings[q].store_slug
  /\ \A r \in RowIds :
       store_settings[r].present => slugRegex(store_settings[r].store_slug)

====
